---- MODULE Spec2Model ----
(***************************************************************************)
(* Causal profiler (runtime/causalprof) and its session lifecycle:         *)
(* Start / Stop, the profileWriter loop, selectExperiment, the progress    *)
(* accumulator and the record sink.                                        *)
(***************************************************************************)
EXTENDS Integers, Sequences, FiniteSets, TLC

(* ---------------- program constants ---------------- *)
profilingHz == 1000
delayPerPercent == 10000
NumLevels == 20

(* ---------------- bounds of the environment ---------------- *)
\* scenario "calls": concurrent callers issue Start and Stop, no workers
MaxCalls == 3
MaxSamplesCalls == 2
\* scenario "stop": one session with a worker, stopped at any point; the
\* clock is not observed
MaxSamplesStop == 2
MaxUnitsStop == 1
\* scenario "exh": one session sampled until its call site is exhausted
MaxSamplesExh == 23
\* scenario "prog": one session, every worker reports one unit
MaxSamplesProg == 1
\* scenario "delay": one experiment, one worker reports one unit while
\* the delay actuator charges contexts
MaxTicksDelay == 1
MaxDelaysDelay == 1
\* rand.Perm(20) is drawn from the permutations i |-> (a*i + b) % 20
MaxPermShift == 1

Callers == {"c1", "c2"}
Workers == {"w1", "w2"}
PermMults == {1, 19}

VARIABLES cfg, used, mu, profiling, doneMade, rate, cpuprof, armed,
          delayTotal, now, pcC, ret, loops, progress, progresstime,
          progressmu, gCount, gSum, wk, sink, rd

vars == <<cfg, used, mu, profiling, doneMade, rate, cpuprof, armed,
          delayTotal, now, pcC, ret, loops, progress, progresstime,
          progressmu, gCount, gSum, wk, sink, rd>>

(* ---------------- pure helpers ---------------- *)
\* Go integer division truncates toward zero
Quot(a, b) ==
  IF a >= 0 THEN a \div b ELSE -((-a) \div b)

\* rand.Perm(20): a permutation of 0..19 (1-indexed sequence)
Affine(a, b) ==
  [i \in 1..NumLevels |-> (a * (i - 1) + b) % NumLevels]

Perms(shift) ==
  {Affine(a, b) : a \in PermMults, b \in 0..shift}

\* remaining = remaining[1:]
PopRemainingKeep(rem) ==
  rem

PopRemaining(rem) ==
  Tail(rem)

\* selectExperiment without the forced baseline
selectExperimentNoForce(e, r) ==
  IF ~e.hasNull /\ r = 1
  THEN [val |-> 0, hasNull |-> TRUE, remaining |-> e.remaining]
  ELSE IF Len(e.remaining) = 0
       THEN [val |-> -1, hasNull |-> e.hasNull, remaining |-> e.remaining]
       ELSE [val |-> Head(e.remaining) + 1, hasNull |-> e.hasNull,
             remaining |-> PopRemaining(e.remaining)]

\* selectExperiment(expinfo) with r = rand.Intn(2); returns the value and
\* the updated experiment
selectExperiment(e, r) ==
  IF ~e.hasNull /\ r = 1
  THEN [val |-> 0, hasNull |-> TRUE, remaining |-> e.remaining]
  ELSE IF Len(e.remaining) = 0
       THEN IF ~e.hasNull
            THEN [val |-> 0, hasNull |-> TRUE, remaining |-> e.remaining]
            ELSE [val |-> -1, hasNull |-> e.hasNull, remaining |-> e.remaining]
       ELSE [val |-> Head(e.remaining) + 1, hasNull |-> e.hasNull,
             remaining |-> PopRemaining(e.remaining)]

\* compareprogress() body, under progressmu
compareprogressNoGuard(n, total) ==
  IF n = 0 THEN 0 ELSE Quot(total, n)

compareprogress(n, total) ==
  IF n = 0 THEN -1 ELSE Quot(total, n)

\* delaypersample := uint64(exp) * (5 * delayPerPercent)
DelayPerSample(exp) ==
  exp * (5 * delayPerPercent)

\* delaypersample/delayPerPercent, the percentage printed in a record
Percent(dps) ==
  dps \div delayPerPercent

(* ---------------- state after package initialisation ---------------- *)
MaxPCs == 2
MaxSamplesOther == 1
MaxLinesRead == 2
MaxRecsRead == 2
PCsAll == 1..MaxPCs

Configs ==
  { [name |-> "calls", others |-> 0, calls |-> MaxCalls, stops |-> MaxCalls,
     samples |-> MaxSamplesCalls, units |-> 0, ticks |-> 0, delays |-> 0,
     npcs |-> 1, shift |-> 0, callers |-> Callers, workers |-> {}],
    [name |-> "stop", others |-> 0, calls |-> 2, stops |-> 1,
     samples |-> MaxSamplesStop, units |-> MaxUnitsStop,
     ticks |-> 0, delays |-> 0, npcs |-> 1, shift |-> 0,
     callers |-> {"c1"}, workers |-> {"w1"}],
    [name |-> "exh", others |-> 0, calls |-> 2, stops |-> 1,
     samples |-> MaxSamplesExh, units |-> 0, ticks |-> 0, delays |-> 0,
     npcs |-> 1, shift |-> MaxPermShift, callers |-> {"c1"},
     workers |-> {}],
    [name |-> "prog", others |-> 0, calls |-> 1, stops |-> 0,
     samples |-> MaxSamplesProg, units |-> Cardinality(Workers),
     ticks |-> 1, delays |-> 0, npcs |-> 1,
     shift |-> 0, callers |-> {"c1"}, workers |-> Workers],
    [name |-> "delay", others |-> 0, calls |-> 1, stops |-> 0,
     samples |-> 1, units |-> 1,
     ticks |-> MaxTicksDelay, delays |-> MaxDelaysDelay, npcs |-> 1,
     shift |-> 0, callers |-> {"c1"}, workers |-> {"w1"}],
    [name |-> "exh2", others |-> MaxSamplesOther, calls |-> 1, stops |-> 0,
     samples |-> MaxSamplesExh, units |-> 0, ticks |-> 0, delays |-> 0,
     npcs |-> MaxPCs, shift |-> 0, callers |-> {"c1"}, workers |-> {}],
    [name |-> "restart", others |-> 0, calls |-> 3, stops |-> 1,
     samples |-> 2, units |-> 2,
     ticks |-> 0, delays |-> 0, npcs |-> 1, shift |-> 0,
     callers |-> {"c1"}, workers |-> {"w1"}] }

NoExp == [present |-> FALSE, hasNull |-> FALSE, remaining |-> <<>>]

\* the locals of a freshly launched profileWriter goroutine
NewLoop ==
  [phase |-> "sample", pc |-> 0, exps |-> [p \in PCsAll |-> NoExp],
   dps |-> 0, diff |-> 0, line |-> 0, intr |-> FALSE,
   resets |-> 0, stopped |-> FALSE, hist |-> [p \in PCsAll |-> <<>>]]

\* a profileWriter goroutine that has returned (it returns only after it has
\* received from cpu.done)
DeadLoop ==
  [NewLoop EXCEPT !.phase = "terminated", !.stopped = TRUE]

\* slept: the injected sleep this worker itself served during its unit
IdleWorker ==
  [st |-> "idle", startTime |-> 0, startDelay |-> 0, slept |-> 0, t |-> 0]

\* the causalprof command has not been run
RdIdle ==
  [phase |-> "idle", src |-> "none", recs |-> <<>>, file |-> <<>>, pos |-> 0,
   samples |-> <<>>, err |-> "nil", nullexp |-> 0, out |-> <<>>]

InitProfiler ==
  /\ cfg \in Configs
  /\ used = [calls |-> 0, stops |-> 0, samples |-> 0, units |-> 0, ticks |-> 0,
             delays |-> 0, recs |-> 0]
  /\ mu = "none"
  /\ profiling = FALSE
  /\ doneMade = FALSE
  /\ rate = 0
  /\ cpuprof \in (IF cfg.name = "calls" THEN BOOLEAN ELSE {FALSE})
  /\ armed = 0
  /\ delayTotal = 0
  /\ now = 0
  /\ pcC = [c \in Callers |-> "idle"]
  /\ ret = "none"
  /\ loops = <<>>
  /\ progress = 0
  /\ progresstime = 0
  /\ progressmu = "none"
  /\ gCount = 0
  /\ gSum = 0
  /\ wk = [w \in Workers |-> IdleWorker]
  /\ sink = <<>>

Init ==
  /\ InitProfiler
  /\ rd = RdIdle

profilerVars ==
  <<cfg, used, mu, profiling, doneMade, rate, cpuprof, armed, delayTotal,
    now, pcC, ret, loops, progress, progresstime, progressmu, gCount, gSum,
    wk, sink>>
cpuVars == <<mu, profiling, doneMade, rate, pcC, ret>>
progVars == <<progress, progresstime, progressmu, gCount, gSum>>
timeVars == <<delayTotal, now>>

(* ---------------- Session controller ---------------- *)
\* if cpu.profiling { return error }
AlreadyProfilingNever ==
  FALSE

AlreadyProfiling ==
  profiling

\* if pprof.IsCPUProfiling() { return error }
CPUProfilingIgnored ==
  FALSE

CPUProfilingActive ==
  cpuprof

\* if !cpu.profiling { return }
NotProfilingNever ==
  FALSE

NotProfiling ==
  ~profiling

\* Start(w): cpu.Lock() .. deferred cpu.Unlock(); nothing in it blocks
Start(c) ==
  /\ c \in cfg.callers
  /\ pcC[c] = "idle"
  /\ mu = "none"
  /\ used.calls < cfg.calls
  /\ used' = [used EXCEPT !.calls = @ + 1]
  /\ doneMade' = TRUE
  /\ IF AlreadyProfiling
     THEN /\ ret' = "causal profiling already in use"
          /\ UNCHANGED <<profiling, rate, loops>>
     ELSE IF CPUProfilingActive
          THEN /\ ret' = "cpu profiling already in use"
               /\ UNCHANGED <<profiling, rate, loops>>
          ELSE /\ profiling' = TRUE
               /\ rate' = profilingHz
               /\ loops' = Append(loops, NewLoop)
               /\ ret' = "nil"
  /\ UNCHANGED <<cfg, rd, mu, cpuprof, armed, pcC, wk, sink>>
  /\ UNCHANGED progVars
  /\ UNCHANGED timeVars

\* Stop(): cpu.Lock(); if !cpu.profiling { return }; cpu.profiling = false
StopBegin(c) ==
  /\ c \in cfg.callers
  /\ pcC[c] = "idle"
  /\ mu = "none"
  /\ used.calls < cfg.calls
  /\ used.stops < cfg.stops
  /\ used' = [used EXCEPT !.calls = @ + 1, !.stops = @ + 1]
  /\ IF NotProfiling
     THEN /\ ret' = "noop"
          /\ UNCHANGED <<mu, profiling, pcC, loops>>
     ELSE /\ mu' = c
          /\ profiling' = FALSE
          /\ pcC' = [pcC EXCEPT ![c] = "signal"]
          /\ ret' = "none"
          \* history: which experiment was inside its window at the call
          /\ loops' = [l \in 1..Len(loops) |->
                         IF loops[l].phase = "select"
                         THEN [loops[l] EXCEPT !.intr = TRUE]
                         ELSE loops[l]]
  /\ UNCHANGED <<cfg, rd, doneMade, rate, cpuprof, armed, wk, sink>>
  /\ UNCHANGED progVars
  /\ UNCHANGED timeVars

\* runtime.SetCPUProfileRate(0); runtime_causalProfileWakeup()
StopSignal(c) ==
  /\ pcC[c] = "signal"
  /\ rate' = 0
  /\ pcC' = [pcC EXCEPT ![c] = "send"]
  /\ UNCHANGED <<cfg, rd, used, mu, profiling, doneMade, cpuprof, armed, ret,
                 loops, wk, sink>>
  /\ UNCHANGED progVars
  /\ UNCHANGED timeVars

\* the loop draining runtime.CPUProfile(), then the deferred cpu.Unlock()
StopDrain(c) ==
  /\ pcC[c] = "drain"
  /\ mu' = "none"
  /\ pcC' = [pcC EXCEPT ![c] = "idle"]
  /\ ret' = "stopped"
  /\ UNCHANGED <<cfg, rd, used, profiling, doneMade, rate, cpuprof, armed,
                 loops, wk, sink>>
  /\ UNCHANGED progVars
  /\ UNCHANGED timeVars

(* ---------------- profileWriter ---------------- *)
\* runtime_causalProfileStart(): the next sampled pc, 0 once sampling is off
SampleSource(r, npcs) ==
  IF r = 0 THEN {0} ELSE 1..npcs

\* the sample stream of a scenario: site 1 for the first cfg.samples samples,
\* the other sites for the cfg.others samples after them
SampleAllowed(p) ==
  IF p = 1 THEN used.samples < cfg.samples
  ELSE /\ used.samples >= cfg.samples
       /\ used.samples < cfg.samples + cfg.others

\* if pc == 0 { <-cpu.done; break }
ZeroPcPhaseNoRecv ==
  "terminated"

ZeroPcPhase ==
  "waitdone"

\* experiments[pc] lookup, creating &experiment{remaining: rand.Perm(20)}
Lookup(exps, p, perm) ==
  IF exps[p].present THEN exps[p]
  ELSE [present |-> TRUE, hasNull |-> FALSE, remaining |-> perm]

\* one of the four fmt.Fprintf calls of a record
RecordLine(l, k, pc, dps, diff) ==
  [sess |-> l,
   kind |-> CASE k = 1 -> "func" [] k = 2 -> "speedup" [] k = 3 -> "nsop"
              [] OTHER -> "data",
   pc |-> pc, pct |-> Percent(dps), ns |-> diff]

LoopSet(l, r) == [loops EXCEPT ![l] = r]

\* the statement after selectExperiment, without the call of resetProgress
AfterSelectPhaseSkipReset(val) ==
  IF val = -1 THEN "exhausted" ELSE "arm"

\* if exp == -1 { ...; continue } else resetProgress() comes next
AfterSelectPhase(val) ==
  IF val = -1 THEN "exhausted" ELSE "reset"

\* pc := runtime_causalProfileStart() .. exp := selectExperiment(expinfo)
LoopSample(l) ==
  /\ l \in 1..Len(loops)
  /\ loops[l].phase = "sample"
  /\ \E p \in SampleSource(rate, cfg.npcs) :
       IF p = 0
       THEN /\ loops' = LoopSet(l, [loops[l] EXCEPT !.phase = ZeroPcPhase,
                                      !.pc = 0, !.intr = FALSE])
            /\ UNCHANGED used
       ELSE /\ SampleAllowed(p)
            /\ used' = [used EXCEPT !.samples = @ + 1]
            /\ \E r \in 0..1, perm \in Perms(cfg.shift) :
                 LET e0 == Lookup(loops[l].exps, p, perm)
                     sel == selectExperiment(e0, r)
                 IN loops' = LoopSet(l,
                      [loops[l] EXCEPT
                         !.phase = AfterSelectPhase(sel.val),
                         !.pc = p,
                         !.exps[p] = [present |-> TRUE, hasNull |-> sel.hasNull,
                                      remaining |-> sel.remaining],
                         !.dps = IF sel.val = -1 THEN 0 ELSE DelayPerSample(sel.val),
                         !.intr = FALSE,
                         !.resets = 0,
                         !.hist[p] = Append(@, sel.val)])
  /\ UNCHANGED <<cfg, rd, cpuprof, armed, wk, sink>>
  /\ UNCHANGED cpuVars
  /\ UNCHANGED progVars
  /\ UNCHANGED timeVars

\* <-cpu.done; break   (rendezvous with the sender in Stop)
LoopRecvWait(l, c) ==
  /\ l \in 1..Len(loops)
  /\ loops[l].phase = "waitdone"
  /\ pcC[c] = "send"
  /\ doneMade
  /\ pcC' = [pcC EXCEPT ![c] = "drain"]
  /\ loops' = LoopSet(l, DeadLoop)
  /\ UNCHANGED <<cfg, rd, used, mu, profiling, doneMade, rate, cpuprof, armed,
                 ret, wk, sink>>
  /\ UNCHANGED progVars
  /\ UNCHANGED timeVars

\* the exhausted branch ending the loop instead of continuing it
LoopExhaustedReturn(l) ==
  /\ l \in 1..Len(loops)
  /\ loops[l].phase = "exhausted"
  /\ armed' = 0
  /\ loops' = LoopSet(l, DeadLoop)
  /\ UNCHANGED <<cfg, rd, used, cpuprof, wk, sink>>
  /\ UNCHANGED cpuVars
  /\ UNCHANGED progVars
  /\ UNCHANGED timeVars

\* if exp == -1 { runtime_causalProfileInstall(0); continue }
LoopExhausted(l) ==
  /\ l \in 1..Len(loops)
  /\ loops[l].phase = "exhausted"
  /\ armed' = 0
  /\ loops' = LoopSet(l, [loops[l] EXCEPT !.phase = "sample"])
  /\ UNCHANGED <<cfg, rd, used, cpuprof, wk, sink>>
  /\ UNCHANGED cpuVars
  /\ UNCHANGED progVars
  /\ UNCHANGED timeVars

\* progressmu is free for the caller
ProgressMuFreeNoLock ==
  TRUE

ProgressMuFree ==
  progressmu = "none"

\* resetProgress()
LoopReset(l) ==
  /\ l \in 1..Len(loops)
  /\ loops[l].phase = "reset"
  /\ ProgressMuFree
  /\ progress' = 0
  /\ progresstime' = 0
  /\ gCount' = 0
  /\ gSum' = 0
  /\ loops' = LoopSet(l, [loops[l] EXCEPT !.phase = "arm", !.resets = @ + 1])
  /\ UNCHANGED <<cfg, rd, used, cpuprof, armed, progressmu, wk, sink>>
  /\ UNCHANGED cpuVars
  /\ UNCHANGED timeVars

\* runtime_causalProfileInstall(delaypersample)
LoopArm(l) ==
  /\ l \in 1..Len(loops)
  /\ loops[l].phase = "arm"
  /\ armed' = loops[l].dps
  /\ loops' = LoopSet(l, [loops[l] EXCEPT !.phase = "select"])
  /\ UNCHANGED <<cfg, rd, used, cpuprof, wk, sink>>
  /\ UNCHANGED cpuVars
  /\ UNCHANGED progVars
  /\ UNCHANGED timeVars

\* select: case <-time.After(...)
LoopTimer(l) ==
  /\ l \in 1..Len(loops)
  /\ loops[l].phase = "select"
  /\ loops' = LoopSet(l, [loops[l] EXCEPT !.phase = "disarm"])
  /\ UNCHANGED <<cfg, rd, used, cpuprof, armed, wk, sink>>
  /\ UNCHANGED cpuVars
  /\ UNCHANGED progVars
  /\ UNCHANGED timeVars

\* the done case of the select without its return: the loop goes on with
\* the statements after the select
LoopRecvSelectNoReturn(l, c) ==
  /\ l \in 1..Len(loops)
  /\ loops[l].phase = "select"
  /\ pcC[c] = "send"
  /\ doneMade
  /\ pcC' = [pcC EXCEPT ![c] = "drain"]
  /\ loops' = LoopSet(l, [loops[l] EXCEPT !.phase = "disarm",
                                          !.stopped = TRUE])
  /\ UNCHANGED <<cfg, rd, used, mu, profiling, doneMade, rate, cpuprof, armed,
                 ret, wk, sink>>
  /\ UNCHANGED progVars
  /\ UNCHANGED timeVars

\* select: case <-cpu.done   (rendezvous with the sender in Stop)
LoopRecvSelect(l, c) ==
  /\ l \in 1..Len(loops)
  /\ loops[l].phase = "select"
  /\ pcC[c] = "send"
  /\ doneMade
  /\ pcC' = [pcC EXCEPT ![c] = "drain"]
  /\ loops' = LoopSet(l, [loops[l] EXCEPT !.phase = "stopdisarm",
                                          !.stopped = TRUE])
  /\ UNCHANGED <<cfg, rd, used, mu, profiling, doneMade, rate, cpuprof, armed,
                 ret, wk, sink>>
  /\ UNCHANGED progVars
  /\ UNCHANGED timeVars

\* the done case disarming without returning
LoopStopDisarmFallThrough(l) ==
  /\ l \in 1..Len(loops)
  /\ loops[l].phase = "stopdisarm"
  /\ armed' = 0
  /\ loops' = LoopSet(l, [loops[l] EXCEPT !.phase = "compare"])
  /\ UNCHANGED <<cfg, rd, used, cpuprof, wk, sink>>
  /\ UNCHANGED cpuVars
  /\ UNCHANGED progVars
  /\ UNCHANGED timeVars

\* runtime_causalProfileInstall(0); return   (after <-cpu.done)
LoopStopDisarm(l) ==
  /\ l \in 1..Len(loops)
  /\ loops[l].phase = "stopdisarm"
  /\ armed' = 0
  /\ loops' = LoopSet(l, DeadLoop)
  /\ UNCHANGED <<cfg, rd, used, cpuprof, wk, sink>>
  /\ UNCHANGED cpuVars
  /\ UNCHANGED progVars
  /\ UNCHANGED timeVars

\* runtime_causalProfileInstall(0)   (after the timer)
LoopDisarm(l) ==
  /\ l \in 1..Len(loops)
  /\ loops[l].phase = "disarm"
  /\ armed' = 0
  /\ loops' = LoopSet(l, [loops[l] EXCEPT !.phase = "compare"])
  /\ UNCHANGED <<cfg, rd, used, cpuprof, wk, sink>>
  /\ UNCHANGED cpuVars
  /\ UNCHANGED progVars
  /\ UNCHANGED timeVars

\* diff := compareprogress(); if diff == -1 { continue }
LoopCompare(l) ==
  /\ l \in 1..Len(loops)
  /\ loops[l].phase = "compare"
  /\ ProgressMuFree
  /\ LET d == compareprogress(progress, progresstime)
     IN /\ loops' = LoopSet(l,
             IF d = -1
             THEN [loops[l] EXCEPT !.phase = "sample", !.dps = 0, !.diff = 0,
                                   !.resets = 0]
             ELSE [loops[l] EXCEPT !.phase = "emit", !.diff = d, !.line = 0])
        /\ used' = [used EXCEPT !.recs = IF d = -1 THEN @ ELSE @ + 1]
  /\ UNCHANGED <<cfg, rd, cpuprof, armed, wk, sink>>
  /\ UNCHANGED cpuVars
  /\ UNCHANGED progVars
  /\ UNCHANGED timeVars

\* the next fmt.Fprintf(w, ...) of the record
LoopEmit(l) ==
  /\ l \in 1..Len(loops)
  /\ loops[l].phase = "emit"
  /\ LET k == loops[l].line + 1
     IN /\ sink' = Append(sink, RecordLine(l, k, loops[l].pc, loops[l].dps,
                                           loops[l].diff))
        /\ loops' = LoopSet(l, [loops[l] EXCEPT
                                  !.line = k,
                                  !.phase = IF k = 4 THEN "cooldown" ELSE "emit"])
  /\ UNCHANGED <<cfg, rd, used, cpuprof, armed, wk>>
  /\ UNCHANGED cpuVars
  /\ UNCHANGED progVars
  /\ UNCHANGED timeVars

\* time.Sleep(1000 * (time.Second / profilingHz))
LoopCooldown(l) ==
  /\ l \in 1..Len(loops)
  /\ loops[l].phase = "cooldown"
  /\ loops' = LoopSet(l, [loops[l] EXCEPT !.phase = "sample", !.dps = 0,
                            !.diff = 0, !.line = 0, !.resets = 0])
  /\ UNCHANGED <<cfg, rd, used, cpuprof, armed, wk, sink>>
  /\ UNCHANGED cpuVars
  /\ UNCHANGED progVars
  /\ UNCHANGED timeVars

(* ---------------- progress accumulator (workers) ---------------- *)
\* StartProgress()
StartProgress(w) ==
  /\ w \in cfg.workers
  /\ wk[w].st = "idle"
  /\ used.units < cfg.units
  /\ used' = [used EXCEPT !.units = @ + 1]
  /\ wk' = [wk EXCEPT ![w] = [st |-> "running", startTime |-> now,
                              startDelay |-> delayTotal, slept |-> 0,
                              t |-> 0]]
  /\ UNCHANGED <<cfg, rd, cpuprof, armed, loops, sink>>
  /\ UNCHANGED cpuVars
  /\ UNCHANGED progVars
  /\ UNCHANGED timeVars

\* t := time.Since(p.startTime); d := getDelay() - p.startDelay; t -= d
AdjustedDuration(p) ==
  (now - p.startTime) - (delayTotal - p.startDelay)

\* Progress.Stop, up to progressmu.Lock()
ProgressStopCompute(w) ==
  /\ wk[w].st = "running"
  /\ wk' = [wk EXCEPT ![w] = [st |-> "computed", startTime |-> 0,
                              startDelay |-> 0, slept |-> 0,
                              t |-> AdjustedDuration(wk[w])]]
  /\ UNCHANGED <<cfg, rd, used, cpuprof, armed, loops, sink>>
  /\ UNCHANGED cpuVars
  /\ UNCHANGED progVars
  /\ UNCHANGED timeVars

\* progressmu.Lock(); progresstime += t
ProgressStopAddTime(w) ==
  /\ wk[w].st = "computed"
  /\ ProgressMuFree
  /\ progressmu' = w
  /\ progresstime' = progresstime + wk[w].t
  /\ wk' = [wk EXCEPT ![w].st = "added"]
  /\ UNCHANGED <<cfg, rd, used, cpuprof, armed, loops, sink, progress,
                 gCount, gSum>>
  /\ UNCHANGED cpuVars
  /\ UNCHANGED timeVars

\* progress += 1; deferred progressmu.Unlock()
ProgressStopAddCount(w) ==
  /\ wk[w].st = "added"
  /\ progress' = progress + 1
  /\ progressmu' = "none"
  /\ gCount' = gCount + 1
  /\ gSum' = gSum + wk[w].t
  /\ wk' = [wk EXCEPT ![w] = IdleWorker]
  /\ UNCHANGED <<cfg, rd, used, cpuprof, armed, loops, sink, progresstime>>
  /\ UNCHANGED cpuVars
  /\ UNCHANGED timeVars

(* ---------------- environment ---------------- *)
\* the amounts by which the wall clock is seen to advance: one nanosecond,
\* or one nanosecond less than the smallest delay per sample
TickSteps == {1, 5 * delayPerPercent - 1}

\* wall-clock time passes
Tick(d) ==
  /\ used.ticks < cfg.ticks
  /\ used' = [used EXCEPT !.ticks = @ + 1]
  /\ now' = now + d
  /\ UNCHANGED <<cfg, rd, cpuprof, armed, delayTotal, loops, wk, sink>>
  /\ UNCHANGED cpuVars
  /\ UNCHANGED progVars

\* the execution contexts the delay actuator can charge: the workers and
\* the other goroutines of the program
Contexts == Workers \cup {"other"}

\* the delay actuator charges the armed delay to a sampled context and adds
\* it to the accumulated-delay counter; a worker inside a unit serves the
\* sleep before it goes on, any other context sleeps beside the workers
DelaySample(x) ==
  /\ used.delays < cfg.delays
  /\ armed > 0
  /\ rate > 0
  /\ x \in Workers => (x \in cfg.workers /\ wk[x].st = "running")
  /\ used' = [used EXCEPT !.delays = @ + 1]
  /\ delayTotal' = delayTotal + armed
  /\ IF x \in Workers
     THEN /\ now' = now + armed
          /\ wk' = [wk EXCEPT ![x].slept = @ + armed]
     ELSE UNCHANGED <<now, wk>>
  /\ UNCHANGED <<cfg, rd, cpuprof, armed, loops, sink>>
  /\ UNCHANGED cpuVars
  /\ UNCHANGED progVars

\* the generic CPU profiler is stopped by its owner
PprofStop ==
  /\ cpuprof
  /\ cpuprof' = FALSE
  /\ UNCHANGED <<cfg, rd, used, armed, loops, wk, sink>>
  /\ UNCHANGED cpuVars
  /\ UNCHANGED progVars
  /\ UNCHANGED timeVars

\* goroutine ids of the profileWriter loops, one per successful Start
LoopIds == 1..MaxCalls

LoopNext(l) ==
  \/ LoopSample(l)
  \/ LoopExhausted(l)
  \/ LoopReset(l)
  \/ LoopArm(l)
  \/ LoopTimer(l)
  \/ LoopStopDisarm(l)
  \/ LoopDisarm(l)
  \/ LoopCompare(l)
  \/ LoopEmit(l)
  \/ LoopCooldown(l)
  \/ \E c \in Callers : LoopRecvWait(l, c) \/ LoopRecvSelect(l, c)

Next ==
  \/ \E c \in Callers : Start(c)
  \/ \E c \in Callers : StopBegin(c)
  \/ \E c \in Callers : StopSignal(c)
  \/ \E c \in Callers : StopDrain(c)
  \/ \E l \in LoopIds : LoopSample(l)
  \/ \E l \in LoopIds : LoopExhausted(l)
  \/ \E l \in LoopIds : LoopReset(l)
  \/ \E l \in LoopIds : LoopArm(l)
  \/ \E l \in LoopIds : LoopTimer(l)
  \/ \E l \in LoopIds : LoopStopDisarm(l)
  \/ \E l \in LoopIds : LoopDisarm(l)
  \/ \E l \in LoopIds : LoopCompare(l)
  \/ \E l \in LoopIds : LoopEmit(l)
  \/ \E l \in LoopIds : LoopCooldown(l)
  \/ \E l \in LoopIds, c \in Callers : LoopRecvWait(l, c)
  \/ \E l \in LoopIds, c \in Callers : LoopRecvSelect(l, c)
  \/ \E w \in Workers : StartProgress(w)
  \/ \E w \in Workers : ProgressStopCompute(w)
  \/ \E w \in Workers : ProgressStopAddTime(w)
  \/ \E w \in Workers : ProgressStopAddCount(w)
  \/ \E d \in TickSteps : Tick(d)
  \/ \E x \in Contexts : DelaySample(x)
  \/ PprofStop

Spec == Init /\ [][Next]_vars

(* scheduling: every goroutine that can run eventually does; a caller  *)
(* inside Stop keeps running; a worker holding progressmu releases it   *)
Fairness ==
  /\ \A l \in LoopIds : WF_vars(LoopNext(l))
  /\ \A c \in Callers : WF_vars(StopSignal(c)) /\ WF_vars(StopDrain(c))
  /\ \A w \in Workers :
       WF_vars(ProgressStopAddCount(w))

FairSpec == Spec /\ Fairness

(* ---------------- text of the profile file ---------------- *)
\* a line is a sequence of one-character strings

\* the digits of strconv and fmt, by value
HexChars ==
  <<"0", "1", "2", "3", "4", "5", "6", "7", "8", "9",
    "a", "b", "c", "d", "e", "f">>

\* unicode.IsSpace for the characters of the model
IsSpace(c) == c \in {" ", "\t"}

IsDigitIn(c, base) == \E i \in 1..base : HexChars[i] = c

DigitVal(c) == (CHOOSE i \in 1..16 : HexChars[i] = c) - 1

Ok(v) == [ok |-> TRUE, val |-> v]
SyntaxErr == [ok |-> FALSE, val |-> 0]

\* the digit loop of strconv.ParseUint
RECURSIVE ParseDigits(_, _, _)
ParseDigits(s, base, acc) ==
  IF s = <<>> THEN Ok(acc)
  ELSE IF ~IsDigitIn(Head(s), base) THEN SyntaxErr
  ELSE ParseDigits(Tail(s), base, acc * base + DigitVal(Head(s)))

\* strconv.ParseUint(s, base, 64); base 0 takes the base from the prefix
ParseUint(s, base) ==
  IF Len(s) < 1 THEN SyntaxErr
  ELSE IF base # 0 THEN ParseDigits(s, base, 0)
  ELSE IF s[1] = "0" /\ Len(s) > 1 /\ s[2] = "x"
       THEN IF Len(s) < 3 THEN SyntaxErr
            ELSE ParseDigits(SubSeq(s, 3, Len(s)), 16, 0)
  ELSE IF s[1] = "0" THEN ParseDigits(Tail(s), 8, 0)
  ELSE ParseDigits(s, 10, 0)

\* strconv.ParseInt(s, base, 64): an optional sign, then ParseUint
ParseInt(s, base) ==
  IF Len(s) < 1 THEN SyntaxErr
  ELSE LET neg == s[1] = "-"
           body == IF s[1] \in {"+", "-"} THEN Tail(s) ELSE s
           u == ParseUint(body, base)
       IN IF ~u.ok THEN SyntaxErr
          ELSE Ok(IF neg THEN -u.val ELSE u.val)

\* strconv.Atoi(s)
Atoi(s) == ParseInt(s, 10)

\* strings.Fields(s): the maximal runs of non-space characters
RECURSIVE FieldsFrom(_, _, _)
FieldsFrom(s, cur, acc) ==
  IF s = <<>> THEN (IF cur = <<>> THEN acc ELSE Append(acc, cur))
  ELSE IF IsSpace(Head(s))
       THEN FieldsFrom(Tail(s), <<>>,
                       IF cur = <<>> THEN acc ELSE Append(acc, cur))
  ELSE FieldsFrom(Tail(s), Append(cur, Head(s)), acc)

Fields(s) == FieldsFrom(s, <<>>, <<>>)

\* the digits of n > 0 in the given base, most significant first
RECURSIVE DigitsOf(_, _)
DigitsOf(n, base) ==
  IF n = 0 THEN <<>>
  ELSE Append(DigitsOf(n \div base, base), HexChars[(n % base) + 1])

\* fmt verb %d
FmtDec(n) ==
  IF n = 0 THEN <<"0">>
  ELSE IF n < 0 THEN <<"-">> \o DigitsOf(-n, 10)
  ELSE DigitsOf(n, 10)

\* fmt verb %#x
FmtHex(n) ==
  <<"0", "x">> \o (IF n = 0 THEN <<"0">> ELSE DigitsOf(n, 16))

\* runtime.FuncForPC(pc) and its FileLine, for the sites of the model
SymbolOf(pc) ==
  [name |-> <<"m", ".", "f">>, file |-> <<"f", ".", "g", "o">>, line |-> pc]

\* the text of one line of a record, as the Fprintf calls format it
FormatLine(r) ==
  CASE r.kind = "func" ->
         <<"#", " ">> \o SymbolOf(r.pc).name \o <<" ">>
           \o SymbolOf(r.pc).file \o <<":">> \o FmtDec(SymbolOf(r.pc).line)
    [] r.kind = "speedup" ->
         <<"#", " ", "s", "p", "e", "e", "d", "u", "p", " ">>
           \o FmtDec(r.pct) \o <<"%">>
    [] r.kind = "nsop" ->
         <<"#", " ">> \o FmtDec(r.ns) \o <<"n", "s", "/", "o", "p">>
    [] OTHER ->
         FmtHex(r.pc) \o <<" ">> \o FmtDec(r.pct) \o <<" ">> \o FmtDec(r.ns)

\* the stream the loop of a session writes for a sequence of experiments
RECURSIVE FormatRecords(_)
FormatRecords(recs) ==
  IF recs = <<>> THEN <<>>
  ELSE [k \in 1..4 |->
          FormatLine(RecordLine(1, k, recs[1].pc,
                                recs[1].pct * delayPerPercent, recs[1].ns))]
         \o FormatRecords(Tail(recs))

(* ---------------- the causalprof command ---------------- *)
\* experiments whose records are written and read back
RecCands ==
  [pc : {1, 26}, pct : {0, 20}, ns : {-3, 0, 10}]

\* lines of hand-made input files
RawLines ==
  { <<"0", "x", "1", " ", "0", " ", "1", "0">>,
    <<" ", "0", "x", "2", "\t", "5", " ", " ", "-", "3">>,
    <<>>,
    <<"#", " ", "c">>,
    <<" ">>,
    <<"0", "x", "1", " ", "5">>,
    <<"0", "x", "1", " ", "5", " ", "7", " ", "9">>,
    <<"-", "1", " ", "5", " ", "7">>,
    <<"0", "x", "1", " ", "5", "%", " ", "7">>,
    <<"0", "x", "1", " ", "5", " ", "0", "x", "7">> }

SeqsUpTo(S, n) == UNION {[1..k -> S] : k \in 0..n}

\* the command is started on a file
RdStart(src, recs, file) ==
  [RdIdle EXCEPT !.phase = "scan", !.src = src, !.recs = recs,
                 !.file = file]

InitRead ==
  /\ InitProfiler
  /\ cfg.name = "stop"
  /\ \/ \E f \in SeqsUpTo(RawLines, MaxLinesRead) :
          rd = RdStart("raw", <<>>, f)
     \/ \E recs \in SeqsUpTo(RecCands, MaxRecsRead) :
          rd = RdStart("emit", recs, FormatRecords(recs))

\* strconv.ParseUint(fields[0], 0, 64)
PcBase == 0

\* what readProfFile returns with an error, keeping the samples read so far
FailResultPartial(samples) == samples

\* return nil, err
FailResult(samples) == <<>>

\* the skip test without the comment case
SkippedOnlyEmpty(line) == Len(line) < 1

\* if len(s) < 1 || s[0] == '#' { continue }
Skipped(line) == Len(line) < 1 \/ line[1] = "#"

\* the body of the scan loop for one line that is not skipped
ParseLine(line) ==
  LET fields == Fields(line)
  IN IF Len(fields) # 3 THEN [err |-> "corrupt"]
     ELSE LET pc == ParseUint(fields[1], PcBase)
              speedup == Atoi(fields[2])
              nsPerOp == ParseInt(fields[3], 10)
          IN IF ~pc.ok \/ ~speedup.ok \/ ~nsPerOp.ok THEN [err |-> "syntax"]
             ELSE [err |-> "nil",
                   sample |-> [pc |-> pc.val, speedup |-> speedup.val,
                               nsPerOp |-> nsPerOp.val]]

\* readProfFile: one turn of "for scan.Scan()", or the return at the end of
\* the input
ReadProfFileScan ==
  /\ rd.phase = "scan"
  /\ IF rd.pos = Len(rd.file)
     THEN rd' = [rd EXCEPT !.phase = "parsed"]
     ELSE LET line == rd.file[rd.pos + 1]
          IN IF Skipped(line)
             THEN rd' = [rd EXCEPT !.pos = @ + 1]
             ELSE LET r == ParseLine(line)
                  IN IF r.err # "nil"
                     THEN rd' = [rd EXCEPT !.phase = "failed",
                                           !.samples = FailResult(@),
                                           !.err = r.err]
                     ELSE rd' = [rd EXCEPT !.pos = @ + 1,
                                           !.samples = Append(@, r.sample)]
  /\ UNCHANGED profilerVars

\* main: samples, err := readProfFile(...); nullexp := samples[0]
MainNullexp ==
  /\ rd.phase \in {"parsed", "failed"}
  /\ rd' = IF rd.phase = "failed" THEN [rd EXCEPT !.phase = "fatal"]
           ELSE IF rd.samples = <<>> THEN [rd EXCEPT !.phase = "panic"]
           ELSE [rd EXCEPT !.phase = "indexed", !.nullexp = rd.samples[1]]
  /\ UNCHANGED profilerVars

\* index[s.pc] = append(index[s.pc], s)
IndexOf(samples, pc) ==
  SelectSeq(samples, LAMBDA x : x.pc = pc)

\* the orders sort.Sort(bySpeedup(s)) may leave s in
SortedBySpeedup(s) ==
  { t \in { [i \in 1..Len(s) |-> s[f[i]]] : f \in Permutations(1..Len(s)) } :
      \A i \in 1..(Len(t) - 1) : ~(t[i + 1].speedup < t[i].speedup) }

\* the line printed for one sample of a call site
ReportRow(x, null) ==
  [speedup |-> x.speedup, nsPerOp |-> x.nsPerOp,
   base |-> null.nsPerOp, change |-> x.nsPerOp - null.nsPerOp]

\* main: index by call site, sort each call site, open the program's symbol
\* table, print every call site
MainReport ==
  /\ rd.phase = "indexed"
  /\ \E symbolsOK \in BOOLEAN :
       IF ~symbolsOK THEN rd' = [rd EXCEPT !.phase = "fatal"]
       ELSE LET pcs == {rd.samples[i].pc : i \in 1..Len(rd.samples)}
            IN \E srt \in [pcs -> SeqsUpTo({rd.samples[i] :
                                              i \in 1..Len(rd.samples)},
                                           Len(rd.samples))] :
                 /\ \A pc \in pcs :
                      srt[pc] \in SortedBySpeedup(IndexOf(rd.samples, pc))
                 /\ rd' = [rd EXCEPT
                       !.phase = "reported",
                       !.out = [pc \in pcs |->
                                  [i \in 1..Len(srt[pc]) |->
                                     ReportRow(srt[pc][i], rd.nullexp)]]]
  /\ UNCHANGED profilerVars

NextRead ==
  \/ ReadProfFileScan
  \/ MainNullexp
  \/ MainReport

SpecRead == InitRead /\ [][NextRead]_vars

(* ======================= properties ======================= *)
\* loops that have not yet consumed the stop signal
LiveLoops == {l \in DOMAIN loops : loops[l].phase \notin {"stopdisarm", "terminated"}}

AlreadyErr == "causal profiling already in use"
ConflictErr == "cpu profiling already in use"

StartStep == \E c \in Callers : Start(c)
StopStep == \E c \in Callers : StopBegin(c)

\* C1: at most one session is active at a time; a Start issued while a
\* session is active returns the "already in use" error, launches no loop
\* and leaves the flag and the running loop unchanged, so exactly one
\* not-yet-stopped loop exists
C1_OneSession ==
  /\ [](/\ Cardinality(LiveLoops) <= 1
        /\ (profiling => Cardinality(LiveLoops) = 1))
  /\ [][(StartStep /\ profiling) =>
          /\ ret' = AlreadyErr
          /\ profiling'
          /\ loops' = loops
          /\ rate' = rate]_vars

C1_Witness ==
  /\ ret = AlreadyErr
  /\ profiling
  /\ used.calls = 2
  /\ Len(loops) = 1

\* C2: a Stop called while a session is active eventually returns, in
\* whatever phase the loop is at that moment
C2_StopReturns ==
  \A c \in Callers :
    (pcC[c] \in {"signal", "send"}) ~> (pcC[c] = "idle")

C2_Witness ==
  /\ cfg.name = "exh"
  /\ ret = "stopped"
  /\ used.samples >= NumLevels + 2
  /\ loops[1].phase = "terminated"

\* C3: when a Stop that ended a session returns, the flag is false, the
\* loop of that session has terminated and the armed delay is zero
C3_TornDownAtReturn ==
  [][\A c \in Callers :
       (pcC[c] = "drain" /\ pcC'[c] = "idle") =>
         /\ ~profiling'
         /\ armed' = 0
         /\ \A l \in DOMAIN loops' : loops'[l].phase = "terminated"]_vars

\* C4: no record is written for an experiment during whose measurement
\* window Stop was called
C4_NoRecordWhenInterrupted ==
  \A l \in DOMAIN loops :
    loops[l].intr =>
      /\ loops[l].phase # "cooldown"
      /\ ~(loops[l].phase = "emit" /\ loops[l].line >= 1)

\* C5: Stop with no active session returns at once, changes no session
\* state and sends no stop signal
C5_StopInactiveNoop ==
  [][(StopStep /\ ~profiling) =>
       /\ ret' = "noop"
       /\ UNCHANGED <<mu, profiling, doneMade, rate, cpuprof, armed, pcC,
                      loops, sink>>]_vars

C5_Witness ==
  /\ used.stops >= 2
  /\ used.calls = used.stops
  /\ ~doneMade
  /\ ret = "noop"

\* C6 as stated: Start under a generic CPU profiler returns the conflict
\* error and mutates nothing, the stop channel included
C6_ConflictNoMutation ==
  [][(StartStep /\ ~profiling /\ cpuprof) =>
       /\ ret' = ConflictErr
       /\ UNCHANGED <<profiling, doneMade, rate, loops>>]_vars

\* C6 amended: Start under a generic CPU profiler returns the conflict
\* error; the flag stays false, the sample source is not configured, no
\* loop is launched; the stop channel is created if it did not exist
C6_ConflictOnlyMakesChannel ==
  [][(StartStep /\ ~profiling /\ cpuprof) =>
       /\ ret' = ConflictErr
       /\ UNCHANGED <<profiling, rate, loops, armed, sink, mu, pcC>>
       /\ doneMade']_vars

C6_Witness ==
  /\ ret = ConflictErr
  /\ ~profiling
  /\ doneMade
  /\ loops = <<>>

\* the levels (non-sentinel values) selected so far for a call site
Levels(h) == SelectSeq(h, LAMBDA v : v # -1)

NoRepeats(h) == \A i, j \in 1..Len(h) : i # j => h[i] # h[j]

\* C7: no delay level is selected twice for a call site and every selected
\* level lies in 0..20
C7_LevelsUnique ==
  \A l \in DOMAIN loops : \A p \in PCsAll :
    /\ NoRepeats(Levels(loops[l].hist[p]))
    /\ \A i \in 1..Len(Levels(loops[l].hist[p])) :
         Levels(loops[l].hist[p])[i] \in 0..NumLevels

C7_Witness ==
  \E l \in DOMAIN loops : \E p \in PCsAll :
    Len(Levels(loops[l].hist[p])) = NumLevels + 1

\* C8: the first 21 calls for a call site return each level 0..20 once,
\* every call from the 22nd on returns the sentinel and leaves the
\* experiment state unchanged
C8_ExhaustedFrom22 ==
  /\ [](\A l \in DOMAIN loops : \A p \in PCsAll :
          LET h == loops[l].hist[p]
          IN /\ \A i \in 1..Len(h) :
                  IF i <= NumLevels + 1 THEN h[i] \in 0..NumLevels
                  ELSE h[i] = -1
             /\ Len(h) >= NumLevels + 1 =>
                  {h[i] : i \in 1..(NumLevels + 1)} = 0..NumLevels)
  /\ [][\A l \in DOMAIN loops : \A p \in PCsAll :
          (/\ l \in DOMAIN loops'
           /\ Len(loops'[l].hist[p]) = Len(loops[l].hist[p]) + 1
           /\ loops'[l].hist[p][Len(loops'[l].hist[p])] = -1)
          => loops'[l].exps[p] = loops[l].exps[p]]_vars

C8_Witness ==
  \E l \in DOMAIN loops : \E p \in PCsAll :
    /\ Len(loops[l].hist[p]) >= NumLevels + 3
    /\ loops[l].hist[p][NumLevels + 1] = 0

\* C9: whenever no worker is inside the locked update, the unit count and
\* the total equal the count and the sum of the units committed since the
\* last reset
C9_NoLostUnits ==
  (\A w \in Workers : wk[w].st # "added") =>
     /\ progress = gCount
     /\ progresstime = gSum

C9_Witness ==
  /\ gCount = 2
  /\ gSum > 0
  /\ progress = 2
  /\ \A w \in Workers : wk[w].st = "idle"

\* C10: an experiment with zero units between its reset and the reading of
\* the mean writes nothing and the loop goes on to the next sample
C10_ZeroUnitsNoRecord ==
  /\ [](\A l \in DOMAIN loops :
          loops[l].phase \in {"emit", "cooldown"} => progress > 0)
  /\ [][\A l \in DOMAIN loops :
          (loops[l].phase = "compare" /\ loops'[l].phase # "compare"
             /\ progress = 0)
          => (sink' = sink /\ loops'[l].phase = "sample")]_vars

C10_Witness ==
  \E l \in DOMAIN loops :
    /\ loops[l].phase = "sample"
    /\ loops[l].hist[1] # <<>>
    /\ loops[l].hist[1][Len(loops[l].hist[1])] # -1
    /\ progress = 0
    /\ sink = <<>>

\* C11: EndUnit adds exactly the unit's true cost, its elapsed wall time
\* less the injected sleep the unit itself served, whatever delay was
\* injected meanwhile and however many workers run
C11_DelaySubtractionExact ==
  [][\A w \in Workers :
       (wk[w].st = "running" /\ wk'[w].st = "computed") =>
         wk'[w].t = (now - wk[w].startTime) - wk[w].slept]_vars

\* C16: when the loop reads the mean, the experiment is dropped if and only
\* if no unit was recorded since the reset; with at least one unit it goes
\* on to emit a record whose nanosecond field is the total divided by the
\* count, also when that quotient is zero or negative
C16_DroppedOnlyWithoutData ==
  [][\A l \in DOMAIN loops :
       (l \in DOMAIN loops' /\ loops[l].phase = "compare"
          /\ loops'[l].phase # "compare") =>
         /\ (loops'[l].phase = "sample") <=> (progress = 0)
         /\ progress > 0 =>
              /\ loops'[l].phase = "emit"
              /\ loops'[l].diff = Quot(progresstime, progress)]_vars

\* the phases of an experiment from the arming of its delay to the reading
\* of the mean
ArmedPhases == {"select", "disarm", "compare"}

\* some loop executes resetProgress
ResetStep == \E k \in LoopIds : LoopReset(k)

\* the phase a loop comes from when it enters phase p
PhaseBefore(p) ==
  CASE p = "arm" -> "reset"
    [] p = "select" -> "arm"
    [] p = "disarm" -> "select"
    [] OTHER -> "disarm"

\* C17: every experiment resets the accumulator exactly once, before its
\* delay is armed; the loop then arms, waits, disarms and reads the mean in
\* this order, and nothing resets the accumulator from the arming until the
\* mean has been read
C17_ResetOnceBeforeArm ==
  /\ [](\A l \in DOMAIN loops :
          /\ loops[l].phase = "reset" => loops[l].resets = 0
          /\ loops[l].phase \in {"arm", "emit", "cooldown"} \cup ArmedPhases
               => loops[l].resets = 1)
  /\ [][(\E l \in DOMAIN loops : loops[l].phase \in ArmedPhases)
          => ~ResetStep]_vars
  /\ [][\A l \in DOMAIN loops :
          (loops'[l].phase # loops[l].phase
             /\ loops'[l].phase \in {"arm"} \cup ArmedPhases)
            => loops[l].phase = PhaseBefore(loops'[l].phase)]_vars

\* an experiment reaches the reading of the mean with the units recorded
\* during its window still accumulated
C17_Witness ==
  \E l \in DOMAIN loops :
    loops[l].phase = "compare" /\ loops[l].resets = 1 /\ progress > 0

\* C15: from the arming of an experiment's delay until the loop of that
\* experiment disarms it, the armed delay is the delay chosen for the
\* experiment, across any sequence of Start and Stop
C15_ArmedIsChosenDelay ==
  \A l \in DOMAIN loops :
    loops[l].phase \in {"select", "disarm"} => armed = loops[l].dps

\* the experiment set of site p is used up: the null experiment and all
\* twenty levels have been handed out
Exhausted(e, p) ==
  e[p].present /\ e[p].hasNull /\ e[p].remaining = <<>>

\* C18: a sample of an exhausted site makes the loop arm zero, leave the
\* accumulator and the sink alone and go back to sampling; a sample of a
\* site that is not exhausted starts an experiment, whatever other sites
\* of the session are exhausted
C18_ExhaustedSiteSkipped ==
  [][\A l \in DOMAIN loops :
       /\ (loops[l].phase = "exhausted" /\ loops'[l] # loops[l]) =>
            /\ armed' = 0
            /\ loops'[l].phase = "sample"
            /\ progress' = progress /\ progresstime' = progresstime
            /\ sink' = sink
       /\ (loops[l].phase = "sample"
             /\ loops'[l].phase \in {"exhausted", "reset"}) =>
            (loops'[l].phase = "exhausted"
               <=> Exhausted(loops[l].exps, loops'[l].pc))]_vars

\* after site 1 has been exhausted and skipped, another site of the same
\* session gets an experiment
C18_Witness ==
  \E l \in DOMAIN loops :
    /\ Exhausted(loops[l].exps, 1)
    /\ Len(loops[l].hist[1]) > NumLevels + 1
    /\ loops[l].pc # 1
    /\ loops[l].phase = "reset"

\* the kinds of the four lines of a record, in the order of the Fprintf calls
RecordKinds == <<"func", "speedup", "nsop", "data">>

\* the loops that are between the first and the last Fprintf of a record
Emitting == {l \in DOMAIN loops : loops[l].phase = "emit"}

\* the sink is a sequence of records of four lines each, every line of a
\* record carrying the same session, site, percentage and mean
WellGrouped ==
  \A i \in 1..Len(sink) :
    LET h == i - ((i - 1) % 4)
    IN /\ sink[i].kind = RecordKinds[((i - 1) % 4) + 1]
       /\ sink[i].sess = sink[h].sess
       /\ sink[i].pc = sink[h].pc
       /\ sink[i].pct = sink[h].pct
       /\ sink[i].ns = sink[h].ns

\* C19: the sink only grows, by whole records of four contiguous lines
\* written by one loop at a time, one record for every experiment that
\* completed with data, also when a session is stopped and another one is
\* started on the same sink
C19_RecordsContiguous ==
  /\ [](/\ Cardinality(Emitting) <= 1
        /\ WellGrouped
        /\ Emitting = {} => Len(sink) = 4 * used.recs
        /\ \A l \in Emitting :
             /\ Len(sink) = 4 * (used.recs - 1) + loops[l].line
             /\ \A j \in 1..loops[l].line :
                  sink[4 * (used.recs - 1) + j] =
                    RecordLine(l, j, loops[l].pc, loops[l].dps, loops[l].diff))
  /\ [][\/ sink' = sink
        \/ /\ Len(sink') = Len(sink) + 1
           /\ SubSeq(sink', 1, Len(sink)) = sink]_vars

\* two sessions have each written a whole record to the same sink
C19_Witness ==
  /\ Len(sink) = 8
  /\ sink[4].sess # sink[5].sess
  /\ Emitting = {}

\* C20: a loop that has received the stop signal writes no further line
C20_NoWriteAfterStopConsumed ==
  [][\A l \in DOMAIN loops :
       loops[l].stopped =>
         \/ sink' = sink
         \/ sink'[Len(sink')].sess # l]_vars

\* Stop has returned for a session that wrote a record, the Stop having been
\* called while the loop was writing it
C20_Witness ==
  \E l \in DOMAIN loops :
    /\ loops[l].stopped
    /\ ret = "stopped"
    /\ Len(sink) = 4
    /\ sink[4].sess = l

\* the 0% records of call site pc among the samples read
Baselines(samples, pc) ==
  {i \in 1..Len(samples) : samples[i].pc = pc /\ samples[i].speedup = 0}

\* C12: every printed row of a call site that has a 0% record is compared
\* with a 0% record of that call site, and the rows of a call site are in
\* ascending order of percentage
C12_BaselinePerSite ==
  rd.phase = "reported" =>
    \A pc \in DOMAIN rd.out :
      /\ \A i \in 1..(Len(rd.out[pc]) - 1) :
           rd.out[pc][i].speedup <= rd.out[pc][i + 1].speedup
      /\ Baselines(rd.samples, pc) # {} =>
           \A i \in 1..Len(rd.out[pc]) :
             \E b \in Baselines(rd.samples, pc) :
               rd.out[pc][i].base = rd.samples[b].nsPerOp

\* a data line the reader cannot take as a record: not three fields, or an
\* address, percentage or nanosecond field that does not parse
Malformed(line) ==
  LET f == Fields(line)
  IN \/ Len(f) # 3
     \/ ~ParseUint(f[1], 0).ok
     \/ ~Atoi(f[2]).ok
     \/ ~ParseInt(f[3], 10).ok

\* the lines of a file that are neither empty nor '#' comments
DataLines(file) ==
  {i \in 1..Len(file) : file[i] # <<>> /\ file[i][1] # "#"}

C14_RoundTrip ==
  (rd.src = "emit" /\ rd.phase \in {"parsed", "failed"}) =>
    /\ rd.phase = "parsed"
    /\ rd.err = "nil"
    /\ rd.samples = [i \in 1..Len(rd.recs) |->
                       [pc |-> rd.recs[i].pc, speedup |-> rd.recs[i].pct,
                        nsPerOp |-> rd.recs[i].ns]]

\* two experiments read back, one with a two-digit hexadecimal address, one
\* with a negative mean
C14_Witness ==
  /\ rd.src = "emit"
  /\ rd.phase = "parsed"
  /\ Len(rd.recs) = 2
  /\ rd.recs[1].pc = 26 /\ rd.recs[1].pct = 20
  /\ rd.recs[2].ns < 0
  /\ Len(rd.samples) = 2

====
